---- MODULE Spec2Model ----
(***************************************************************************)
(* pynamodb-polymorph: derived ("virtual") attributes and codecs for       *)
(* PynamoDB models.                                                        *)
(*                                                                         *)
(* Text is modelled as a sequence of one-character strings, so that        *)
(* joining, escaping, template substitution and the codecs operate on      *)
(* characters as the Python code does.  Python's None is the value None.   *)
(*                                                                         *)
(* Specifications:                                                         *)
(*   Spec          a record of one of the model classes: construction,     *)
(*                 assignment, reads, serialize and deserialize            *)
(*   SpecJoin      Joined / Escaped-Joined descriptors, all constructor    *)
(*                 forms, read on one record                               *)
(*   SpecInj       two records read through the default Escaped-Joined     *)
(*   SpecTemplate  Template descriptors read on one record                 *)
(*   SpecCodec     the ULID, ISO date-time and compressed-text codecs      *)
(***************************************************************************)
EXTENDS Integers, Sequences, FiniteSets, TLC

VARIABLES
    attr,              \* the descriptor under study (SpecJoin, SpecInj, SpecTemplate)
    obj,               \* the record the descriptor is read on: field name -> value
    other,             \* a second record (SpecInj)
    out,               \* what the reads returned
    codec,             \* which codec attribute is exercised (SpecCodec)
    value,             \* the value handed to serialize
    wire,              \* what serialize returned
    decoded,           \* what deserialize returned
    cls,               \* the class of the record (Spec)
    attribute_values,  \* the record's stored values: python name -> value
    now,               \* the UTC clock, in seconds after the epoch of the model
    last               \* the last operation on the record and its outcome

vars == <<attr, obj, other, out, codec, value, wire, decoded,
          cls, attribute_values, now, last>>

\* Python values are tagged records, so that values of different types can be
\* told apart: None, text, integers, tuples of names.
None == [t |-> "None"]
Str(s) == [t |-> "str", s |-> s]
IntV(n) == [t |-> "int", n |-> n]
Tuple(items) == [t |-> "tuple", items |-> items]
Error(e) == [t |-> "error", e |-> e]
Obj(c, vals) == [t |-> "obj", cls |-> c, values |-> vals]
Idle == [t |-> "idle"]

IsError(v) == v.t = "error"

\* ------------------------------------------------------------------ text

RECURSIVE IntToText(_)
\* The decimal digits of n >= 0.
IntToText(n) ==
    LET d == <<"0", "1", "2", "3", "4", "5", "6", "7", "8", "9">>[(n % 10) + 1]
    IN  IF n < 10 THEN <<d>> ELSE IntToText(n \div 10) \o <<d>>

\* str(x), as characters: text stays, None becomes the four characters of
\* "None", an integer its decimal digits.
str(x) ==
    IF x = None THEN <<"N", "o", "n", "e">>
    ELSE IF x.t = "int" THEN IntToText(x.n)
    ELSE x.s

\* All texts over alphabet S of length at most n.
TextsUpTo(S, n) ==
    UNION {[1..k -> S] : k \in 0..n}

RECURSIVE Concat(_)
\* The concatenation of a sequence of texts.
Concat(parts) ==
    IF parts = <<>> THEN <<>> ELSE Head(parts) \o Concat(Tail(parts))

RECURSIVE join(_, _)
\* sep.join(parts)
join(sep, parts) ==
    IF parts = <<>> THEN <<>>
    ELSE IF Len(parts) = 1 THEN parts[1]
    ELSE parts[1] \o sep \o join(sep, Tail(parts))

RECURSIVE split(_, _)
\* s.split(c) for a one-character separator c.
split(s, c) ==
    IF \A i \in 1..Len(s) : s[i] # c THEN <<s>>
    ELSE LET k == CHOOSE i \in 1..Len(s) : s[i] = c /\ \A j \in 1..(i - 1) : s[j] # c
         IN  <<SubSeq(s, 1, k - 1)>> \o split(SubSeq(s, k + 1, Len(s)), c)

RECURSIVE strip(_)
\* s.strip(): leading and trailing blanks removed.
strip(s) ==
    IF s = <<>> THEN s
    ELSE IF Head(s) = " " THEN strip(Tail(s))
    ELSE IF s[Len(s)] = " " THEN strip(SubSeq(s, 1, Len(s) - 1))
    ELSE s

\* The characters of the attribute names the models use.
Chars ==
    [pk |-> <<"p", "k">>, bar |-> <<"b", "a", "r">>, name |-> <<"n", "a", "m", "e">>,
     size |-> <<"s", "i", "z", "e">>, zz |-> <<"z", "z">>]

\* The attribute name a text spells; a text that spells none names no attribute.
Intern(s) ==
    IF \E n \in DOMAIN Chars : Chars[n] = s
    THEN CHOOSE n \in DOMAIN Chars : Chars[n] = s
    ELSE "?"

\* ------------------------------------------------- urllib.parse.quote

HexDigits == <<"0", "1", "2", "3", "4", "5", "6", "7", "8", "9", "A", "B", "C", "D", "E", "F">>

\* The code points of the characters the models' values are made of.
Ord ==
    [c \in {"#", "%", "@", "/", "|", "a", "b", "2", "3", "5", "N", "o", "n", "e", "x", "W"} |->
        CASE c = "#" -> 35 [] c = "%" -> 37 [] c = "@" -> 64 [] c = "/" -> 47
          [] c = "|" -> 124 [] c = "a" -> 97 [] c = "b" -> 98 [] c = "2" -> 50
          [] c = "3" -> 51 [] c = "5" -> 53 [] c = "N" -> 78 [] c = "o" -> 111
          [] c = "n" -> 110 [] c = "e" -> 101 [] c = "x" -> 120 [] c = "W" -> 87]

\* Letters, digits and "_.-~" are never quoted.
AlwaysSafe(c) ==
    \/ Ord[c] \in 48..57
    \/ Ord[c] \in 65..90
    \/ Ord[c] \in 97..122
    \/ Ord[c] \in {95, 46, 45, 126}

\* quote's one character step, with "#" kept as it is.
QuoteCharKeepHash(c) ==
    IF AlwaysSafe(c) \/ c \in {"/", "#"} THEN <<c>>
    ELSE <<"%", HexDigits[(Ord[c] \div 16) + 1], HexDigits[(Ord[c] % 16) + 1]>>

\* One character of urllib.parse.quote(s) with its default safe="/": a safe
\* character stays, any other becomes "%" and its two upper-case hex digits.
QuoteChar(c) ==
    IF AlwaysSafe(c) \/ c = "/" THEN <<c>>
    ELSE <<"%", HexDigits[(Ord[c] \div 16) + 1], HexDigits[(Ord[c] % 16) + 1]>>

\* urllib.parse.quote(s)
quote(s) ==
    Concat([i \in 1..Len(s) |-> QuoteChar(s[i])])

\* ------------------------------------------------------- descriptors

\* What a model class declares: python name -> descriptor.  Primitive
\* attributes are PynamoDB's own; the derived ones are this package's.
Unicode == [t |-> "attr", kind |-> "Unicode"]

\* The class the stand-alone descriptors of SpecJoin, SpecInj and
\* SpecTemplate are read on: two text attributes, pk and bar.
PlainDict == [pk |-> Unicode, bar |-> Unicode]

RECURSIVE getattr(_, _)

\* The values of the attributes named by attrs, read in order.
Sources(o, attrs) == [i \in 1..Len(attrs) |-> getattr(o, attrs[i])]

\* The first error among values read in order (the exception that propagates).
FirstError(vs) ==
    vs[CHOOSE i \in 1..Len(vs) : IsError(vs[i]) /\ \A j \in 1..(i - 1) : ~IsError(vs[j])]

HasError(vs) == \E i \in 1..Len(vs) : IsError(vs[i])

\* ------------------------------------------------- Joined descriptors

\* How a constructor argument naming attributes may be given.
IsListArg(x) == x.t = "tuple"

\* JoinedUnicodeAttribute.__init__: attrs is a list of names or one
\* comma-separated text.
JoinedUnicodeAttribute_init(attrs, sep) ==
    [t     |-> "attr",
     kind  |-> "Joined",
     attrs |-> IF IsListArg(attrs) THEN attrs.items
               ELSE LET parts == split(attrs.s, ",")
                    IN  [i \in 1..Len(parts) |-> Intern(strip(parts[i]))],
     sep   |-> sep]

\* EscapedJoinedUnicodeAttribute.__init__: escaped stays None unless a
\* non-empty list or text is given.
EscapedJoinedUnicodeAttribute_init(attrs, sep, escaped) ==
    LET truthy == /\ escaped # None
                  /\ IF IsListArg(escaped) THEN escaped.items # <<>> ELSE escaped.s # <<>>
        esc == IF ~truthy THEN None
               ELSE IF IsListArg(escaped) THEN escaped
               ELSE LET parts == split(escaped.s, ",")
                    IN  Tuple([i \in 1..Len(parts) |-> Intern(strip(parts[i]))])
        base == JoinedUnicodeAttribute_init(attrs, sep)
    IN  [t |-> "attr", kind |-> "EscapedJoined",
         attrs |-> base.attrs, sep |-> base.sep, escaped |-> esc]

\* The default of the sep parameter.
DefaultSep == <<"#">>

\* JoinedUnicodeAttribute.__get__ joining the values in reverse order.
JoinedUnicodeAttribute_get_reversed(self, o) ==
    IF o = None THEN self
    ELSE LET vs == Sources(o, self.attrs)
         IN  IF HasError(vs) THEN FirstError(vs)
             ELSE Str(join(self.sep, [i \in 1..Len(vs) |-> str(vs[Len(vs) + 1 - i])]))

\* JoinedUnicodeAttribute.__get__
JoinedUnicodeAttribute_get(self, o) ==
    IF o = None THEN self
    ELSE LET vs == Sources(o, self.attrs)
         IN  IF HasError(vs) THEN FirstError(vs)
             ELSE Str(join(self.sep, [i \in 1..Len(vs) |-> str(vs[i])]))

\* escape_string with the test on self.escaped inverted: nothing is
\* escaped when no escape set is given.
escape_string_only_listed(self, x, v) ==
    IF self.escaped # None /\ \E i \in 1..Len(self.escaped.items) : self.escaped.items[i] = x
    THEN quote(v) ELSE v

\* escape_string, the helper of EscapedJoinedUnicodeAttribute.__get__.
escape_string(self, x, v) ==
    IF self.escaped = None \/ \E i \in 1..Len(self.escaped.items) : self.escaped.items[i] = x
    THEN quote(v) ELSE v

\* EscapedJoinedUnicodeAttribute.__get__
EscapedJoinedUnicodeAttribute_get(self, o) ==
    IF o = None THEN self
    ELSE LET vs == Sources(o, self.attrs)
         IN  IF HasError(vs) THEN FirstError(vs)
             ELSE Str(join(self.sep,
                           [i \in 1..Len(vs) |-> escape_string(self, self.attrs[i], str(vs[i]))]))

\* ------------------------------------------------ Template descriptor

Letters ==
    {"a", "b", "c", "d", "e", "f", "g", "h", "i", "j", "k", "l", "m", "n", "o", "p", "q",
     "r", "s", "t", "u", "v", "w", "x", "y", "z",
     "A", "B", "C", "D", "E", "F", "G", "H", "I", "J", "K", "L", "M", "N", "O", "P", "Q",
     "R", "S", "T", "U", "V", "W", "X", "Y", "Z"}

Digits == {"0", "1", "2", "3", "4", "5", "6", "7", "8", "9"}

\* string.Template's idpattern: [_a-z][_a-z0-9]*, case-insensitive.
IsIdStart(c) == c \in Letters \cup {"_"}
IsIdChar(c) == c \in Letters \cup Digits \cup {"_"}

\* The length of the longest identifier at the start of s.
IdLen(s) ==
    IF s = <<>> \/ ~IsIdStart(s[1]) THEN 0
    ELSE CHOOSE n \in 1..Len(s) :
            /\ \A i \in 1..n : IsIdChar(s[i])
            /\ (n < Len(s) => ~IsIdChar(s[n + 1]))

\* mapping[name] of the dict {x: getattr(obj, x) for x in attrs}: the value
\* read for the attribute, or the KeyError of a name the dict does not hold.
Lookup(attrs, vs, ident) ==
    IF \E i \in 1..Len(attrs) : Chars[attrs[i]] = ident
    THEN LET i == CHOOSE k \in 1..Len(attrs) : Chars[attrs[k]] = ident
         IN  Str(str(vs[i]))
    ELSE Error("KeyError")

\* Text a then the outcome of the rest: an error in the rest propagates.
Then(a, rest) ==
    IF IsError(rest) THEN rest ELSE Str(a \o rest.s)

RECURSIVE safe_substitute(_, _, _)
\* Template.safe_substitute: a placeholder the mapping lacks, and a "$" that
\* starts no placeholder, are left in the text.
safe_substitute(s, attrs, vs) ==
    IF s = <<>> THEN Str(<<>>)
    ELSE IF s[1] # "$" THEN Then(<<s[1]>>, safe_substitute(Tail(s), attrs, vs))
    ELSE LET r == Tail(s)
             n == IdLen(r)
         IN  IF r # <<>> /\ r[1] = "$"
             THEN Then(<<"$">>, safe_substitute(Tail(r), attrs, vs))
             ELSE IF n > 0
             THEN LET v == Lookup(attrs, vs, SubSeq(r, 1, n))
                  IN  Then(IF IsError(v) THEN <<"$">> \o SubSeq(r, 1, n) ELSE v.s,
                           safe_substitute(SubSeq(r, n + 1, Len(r)), attrs, vs))
             ELSE Then(<<"$">>, safe_substitute(r, attrs, vs))

RECURSIVE substitute(_, _, _)
\* Template.substitute, left to right: "$$" is a "$", "$name" and "${name}"
\* are replaced by str(mapping[name]), KeyError for a name the mapping
\* lacks, ValueError for a "$" that starts no placeholder.
substitute(s, attrs, vs) ==
    IF s = <<>> THEN Str(<<>>)
    ELSE IF s[1] # "$" THEN Then(<<s[1]>>, substitute(Tail(s), attrs, vs))
    ELSE LET r == Tail(s)
             n == IdLen(r)
             m == IF r = <<>> THEN 0 ELSE IdLen(Tail(r))
         IN  IF r # <<>> /\ r[1] = "$"
             THEN Then(<<"$">>, substitute(Tail(r), attrs, vs))
             ELSE IF n > 0
             THEN LET v == Lookup(attrs, vs, SubSeq(r, 1, n))
                  IN  IF IsError(v) THEN v
                      ELSE Then(v.s, substitute(SubSeq(r, n + 1, Len(r)), attrs, vs))
             ELSE IF r # <<>> /\ r[1] = "{" /\ m > 0 /\ Len(r) >= m + 2 /\ r[m + 2] = "}"
             THEN LET v == Lookup(attrs, vs, SubSeq(r, 2, m + 1))
                  IN  IF IsError(v) THEN v
                      ELSE Then(v.s, substitute(SubSeq(r, m + 3, Len(r)), attrs, vs))
             ELSE Error("ValueError")

\* CompoundTemplateAttribute.__init__
CompoundTemplateAttribute_init(template, attrs) ==
    [t |-> "attr", kind |-> "Template", attrs |-> attrs, template |-> template]

\* CompoundTemplateAttribute.__get__ with safe_substitute in place of substitute.
CompoundTemplateAttribute_get_safe(self, o) ==
    IF o = None THEN self
    ELSE LET vs == Sources(o, self.attrs)
         IN  IF HasError(vs) THEN FirstError(vs)
             ELSE safe_substitute(self.template, self.attrs, vs)

\* CompoundTemplateAttribute.__get__: the descriptor itself without a
\* record (a record is always truthy), else the template substituted with
\* the current values of attrs.
CompoundTemplateAttribute_get(self, o) ==
    IF o = None THEN self
    ELSE LET vs == Sources(o, self.attrs)
         IN  IF HasError(vs) THEN FirstError(vs)
             ELSE substitute(self.template, self.attrs, vs)

\* ------------------------------------------- Size and Copy descriptors

SetV(e) == [t |-> "set", e |-> e]
Type(c) == [t |-> "type", name |-> c]

\* len(x) of a set or a text; None has no len().
len(x) ==
    IF x.t = "set" THEN IntV(Cardinality(x.e))
    ELSE IF x.t = "str" THEN IntV(Len(x.s))
    ELSE Error("TypeError")

\* SetSizeAttribute.__init__
SetSizeAttribute_init(source) ==
    [t |-> "attr", kind |-> "SetSize", source |-> source]

\* SetSizeAttribute.__get__: getattr(obj, source) with no test for a missing
\* record, so through the class it is getattr(None, source).
SetSizeAttribute_get(self, o) ==
    LET v == IF o = None THEN Error("AttributeError") ELSE getattr(o, self.source)
    IN  IF IsError(v) THEN v ELSE len(v)

\* CopiedAttribute.__init__, for the attribute type wrapped by
\* copied_attr_factory.
CopiedAttribute_init(kind, source) ==
    [t |-> "attr", kind |-> kind, source |-> source]

\* CopiedAttribute.__get__
CopiedAttribute_get(self, o) ==
    IF o = None THEN self ELSE getattr(o, self.source)

\* --------------------------------------------------- the model classes

UnicodeSet == [t |-> "attr", kind |-> "UnicodeSet"]
Discriminator == [t |-> "attr", kind |-> "Discriminator"]
UpdatedIsoDateTime == [t |-> "attr", kind |-> "UpdatedIsoDateTime"]

\* Base: the untagged parent, with its discriminator and a copy of it.
BaseDict ==
    [cls     |-> Discriminator,
     gsi1_pk |-> CopiedAttribute_init("CopiedDiscriminator", "cls")]

\* BarModel: a template over pk and bar, a copy of bar, and a copy of the
\* discriminator.
BarDict ==
    [cls      |-> Discriminator,
     pk       |-> Unicode,
     bar      |-> Unicode,
     compound |-> CompoundTemplateAttribute_init(
                      <<"B", "A", "R", "#", "$", "p", "k", "#", "$", "b", "a", "r">>,
                      <<"pk", "bar">>),
     copy     |-> CopiedAttribute_init("CopiedUnicode", "bar"),
     gsi1_pk  |-> CopiedAttribute_init("CopiedDiscriminator", "cls")]

\* UserInvite: a joined and an escaped-joined key over pk and bar.
UserInviteDict ==
    [cls      |-> Discriminator,
     pk       |-> Unicode,
     bar      |-> Unicode,
     joined   |-> JoinedUnicodeAttribute_init(Tuple(<<"pk", "bar">>), DefaultSep),
     escaped  |-> EscapedJoinedUnicodeAttribute_init(Tuple(<<"pk", "bar">>), DefaultSep, None)]

\* Order: a set, its size, and a template over the size.
OrderDict ==
    [cls     |-> Discriminator,
     items   |-> UnicodeSet,
     size    |-> SetSizeAttribute_init("items"),
     gsi2_pk |-> CompoundTemplateAttribute_init(
                     <<"B", "Y", "S", "I", "Z", "E", "#", "$", "s", "i", "z", "e">>,
                     <<"size">>)]

\* Publisher: the copy of the discriminator, a template over the name, and
\* a last-updated stamp.
PublisherDict ==
    [cls        |-> Discriminator,
     gsi1_pk    |-> CopiedAttribute_init("CopiedDiscriminator", "cls"),
     name       |-> Unicode,
     gsi1_sk    |-> CompoundTemplateAttribute_init(
                        <<"P", "U", "B", "L", "I", "S", "H", "E", "R", "#", "$", "n", "a", "m", "e">>,
                        <<"name">>),
     updated_at |-> UpdatedIsoDateTime]

ClassDict(c) ==
    CASE c = "Plain" -> PlainDict
      [] c = "Base" -> BaseDict
      [] c = "BarModel" -> BarDict
      [] c = "UserInvite" -> UserInviteDict
      [] c = "Order" -> OrderDict
      [] c = "Publisher" -> PublisherDict

\* The discriminator registry (_class_map): class -> tag.  Base is untagged.
ClassMap ==
    [BarModel |-> <<"B", "a", "r">>,
     UserInvite |-> <<"U", "s", "e", "r", "I", "n", "v", "i", "t", "e">>,
     Order |-> <<"O", "r", "d", "e", "r">>,
     Publisher |-> <<"P", "u", "b", "l", "i", "s", "h", "e", "r">>]

DerivedKinds ==
    {"Template", "Joined", "EscapedJoined", "CopiedUnicode", "SetSize", "CopiedDiscriminator"}

IsDerived(c, n) == ClassDict(c)[n].kind \in DerivedKinds

\* __get__ keeping a copy: a value stored under a derived attribute's own
\* name is returned in place of the computed one.
Get_stored(self, n, o) ==
    IF o # None /\ o.values[n] # None THEN o.values[n]
    ELSE CASE self.kind = "Template" -> CompoundTemplateAttribute_get(self, o)
           [] self.kind = "Joined" -> JoinedUnicodeAttribute_get(self, o)
           [] self.kind = "EscapedJoined" -> EscapedJoinedUnicodeAttribute_get(self, o)
           [] self.kind = "SetSize" -> SetSizeAttribute_get(self, o)
           [] self.kind \in {"CopiedUnicode", "CopiedDiscriminator"} -> CopiedAttribute_get(self, o)
           [] OTHER -> IF o = None THEN self ELSE o.values[n]

\* A descriptor's __get__(obj, type): the derived kinds override it; a
\* primitive attribute hands back what the record stores under the name
\* (None when nothing is stored), or itself without a record.
Get(self, n, o) ==
    CASE self.kind = "Template" -> CompoundTemplateAttribute_get(self, o)
      [] self.kind = "Joined" -> JoinedUnicodeAttribute_get(self, o)
      [] self.kind = "EscapedJoined" -> EscapedJoinedUnicodeAttribute_get(self, o)
      [] self.kind = "SetSize" -> SetSizeAttribute_get(self, o)
      [] self.kind \in {"CopiedUnicode", "CopiedDiscriminator"} -> CopiedAttribute_get(self, o)
      [] OTHER -> IF o = None THEN self ELSE o.values[n]

\* getattr(obj, name): the class's descriptor decides; a name the class
\* does not declare is an AttributeError.
getattr(o, n) ==
    IF n \in DOMAIN ClassDict(o.cls) THEN Get(ClassDict(o.cls)[n], n, o)
    ELSE Error("AttributeError")

\* ----------------------------------------------------- ULID codec

\* Crockford's base 32 alphabet.
Base32 ==
    <<"0", "1", "2", "3", "4", "5", "6", "7", "8", "9", "A", "B", "C", "D", "E", "F",
      "G", "H", "J", "K", "M", "N", "P", "Q", "R", "S", "T", "V", "W", "X", "Y", "Z">>

ULID(bytes) == [t |-> "ulid", bytes |-> bytes]

\* Bit i (1 is the most significant) of a sequence of bytes.
BitOf(bytes, i) ==
    (bytes[((i - 1) \div 8) + 1] \div (2 ^ (7 - ((i - 1) % 8)))) % 2

\* ULID.str: the 128 bits, two zero bits in front, in 26 groups of five.
ulid_str(u) ==
    LET bit(i) == IF i < 1 THEN 0 ELSE BitOf(u.bytes, i)
    IN  [k \in 1..26 |->
            Base32[1 + 16 * bit(5 * k - 6) + 8 * bit(5 * k - 5) + 4 * bit(5 * k - 4)
                     + 2 * bit(5 * k - 3) + bit(5 * k - 2)]]

\* ulid.from_str: 26 characters of the alphabet, decoded to 16 bytes (the two
\* bits in front are dropped); anything else is a ValueError.
ulid_from_str(s) ==
    IF Len(s) # 26 \/ \E k \in 1..26 : \A d \in 1..32 : Base32[d] # s[k]
    THEN Error("ValueError")
    ELSE LET val(k) == (CHOOSE d \in 1..32 : Base32[d] = s[k]) - 1
             \* bit j, 1..130, of the 26 groups
             gbit(j) == (val(((j - 1) \div 5) + 1) \div (2 ^ (4 - ((j - 1) % 5)))) % 2
         IN  ULID([m \in 1..16 |->
                     128 * gbit(8 * m - 5) + 64 * gbit(8 * m - 4) + 32 * gbit(8 * m - 3)
                       + 16 * gbit(8 * m - 2) + 8 * gbit(8 * m - 1) + 4 * gbit(8 * m)
                       + 2 * gbit(8 * m + 1) + gbit(8 * m + 2)])

\* ULIDAttribute.serialize
ULIDAttribute_serialize(v) == Str(ulid_str(v))

\* ULIDAttribute.deserialize
ULIDAttribute_deserialize(w) == ulid_from_str(w.s)

\* ------------------------------------------------- ISO date-time codec

DigitSeq == <<"0", "1", "2", "3", "4", "5", "6", "7", "8", "9">>

\* n in w decimal digits, zero padded.
Pad(n, w) ==
    [i \in 1..w |-> DigitSeq[((n \div (10 ^ (w - i))) % 10) + 1]]

AllDigits(s) == \A i \in 1..Len(s) : s[i] \in Digits

RECURSIVE ParseInt(_)
ParseInt(s) ==
    IF s = <<>> THEN 0
    ELSE 10 * ParseInt(SubSeq(s, 1, Len(s) - 1))
           + ((CHOOSE d \in 1..10 : DigitSeq[d] = s[Len(s)]) - 1)

\* A datetime; tz is None (naive) or its UTC offset in seconds.
DateTime(y, mo, d, h, mi, s, us, tz) ==
    [t |-> "datetime", year |-> y, month |-> mo, day |-> d, hour |-> h,
     minute |-> mi, second |-> s, microsecond |-> us, tz |-> tz]

\* The "+HH:MM[:SS]" of a UTC offset.
FormatOffset(off) ==
    LET a == IF off < 0 THEN -off ELSE off
    IN  <<IF off < 0 THEN "-" ELSE "+">> \o Pad(a \div 3600, 2) \o <<":">>
          \o Pad((a % 3600) \div 60, 2)
          \o (IF a % 60 # 0 THEN <<":">> \o Pad(a % 60, 2) ELSE <<>>)

\* datetime.isoformat() cut to whole seconds (timespec="seconds").
isoformat_seconds(dt) ==
    Pad(dt.year, 4) \o <<"-">> \o Pad(dt.month, 2) \o <<"-">> \o Pad(dt.day, 2) \o <<"T">>
      \o Pad(dt.hour, 2) \o <<":">> \o Pad(dt.minute, 2) \o <<":">> \o Pad(dt.second, 2)
      \o (IF dt.tz = None THEN <<>> ELSE FormatOffset(dt.tz.n))

\* datetime.isoformat(): YYYY-MM-DDTHH:MM:SS, ".ffffff" unless the
\* microseconds are 0, the offset unless the datetime is naive.
isoformat(dt) ==
    Pad(dt.year, 4) \o <<"-">> \o Pad(dt.month, 2) \o <<"-">> \o Pad(dt.day, 2) \o <<"T">>
      \o Pad(dt.hour, 2) \o <<":">> \o Pad(dt.minute, 2) \o <<":">> \o Pad(dt.second, 2)
      \o (IF dt.microsecond # 0 THEN <<".">> \o Pad(dt.microsecond, 6) ELSE <<>>)
      \o (IF dt.tz = None THEN <<>> ELSE FormatOffset(dt.tz.n))

\* "HH:MM" or "HH:MM:SS" after the sign of an offset, in seconds; -1 if malformed.
ParseOffset(s) ==
    IF /\ Len(s) \in {5, 8}
       /\ s[3] = ":" /\ AllDigits(SubSeq(s, 1, 2)) /\ AllDigits(SubSeq(s, 4, 5))
       /\ (Len(s) = 8 => s[6] = ":" /\ AllDigits(SubSeq(s, 7, 8)))
    THEN 3600 * ParseInt(SubSeq(s, 1, 2)) + 60 * ParseInt(SubSeq(s, 4, 5))
           + (IF Len(s) = 8 THEN ParseInt(SubSeq(s, 7, 8)) ELSE 0)
    ELSE -1

\* datetime.fromisoformat of the texts isoformat() writes: the date, one
\* separator, HH:MM:SS, an optional fraction of 3 or 6 digits, an optional
\* offset.  Any other text is a ValueError.
fromisoformat(s) ==
    LET n == Len(s)
        dateOk == /\ n >= 19
                  /\ AllDigits(SubSeq(s, 1, 4)) /\ s[5] = "-" /\ AllDigits(SubSeq(s, 6, 7))
                  /\ s[8] = "-" /\ AllDigits(SubSeq(s, 9, 10))
                  /\ AllDigits(SubSeq(s, 12, 13)) /\ s[14] = ":" /\ AllDigits(SubSeq(s, 15, 16))
                  /\ s[17] = ":" /\ AllDigits(SubSeq(s, 18, 19))
        rest == SubSeq(s, 20, n)
        signs == {i \in 1..Len(rest) : rest[i] \in {"+", "-"}}
        cut == IF signs = {} THEN Len(rest) + 1
               ELSE CHOOSE i \in signs : \A j \in signs : i <= j
        frac == SubSeq(rest, 1, cut - 1)
        tzs == SubSeq(rest, cut, Len(rest))
        fracOk == \/ frac = <<>>
                  \/ /\ Len(frac) \in {4, 7} /\ frac[1] = "." /\ AllDigits(Tail(frac))
        us == IF frac = <<>> THEN 0
              ELSE IF Len(frac) = 4 THEN 1000 * ParseInt(Tail(frac))
              ELSE ParseInt(Tail(frac))
        off == IF tzs = <<>> THEN 0 ELSE ParseOffset(Tail(tzs))
    IN  IF ~dateOk \/ ~fracOk \/ off < 0 THEN Error("ValueError")
        ELSE DateTime(ParseInt(SubSeq(s, 1, 4)), ParseInt(SubSeq(s, 6, 7)),
                      ParseInt(SubSeq(s, 9, 10)), ParseInt(SubSeq(s, 12, 13)),
                      ParseInt(SubSeq(s, 15, 16)), ParseInt(SubSeq(s, 18, 19)), us,
                      IF tzs = <<>> THEN None
                      ELSE IntV(IF tzs[1] = "-" THEN -off ELSE off))

\* IsoDateTime.serialize with the fraction of a second dropped.
IsoDateTime_serialize_seconds(v) == Str(isoformat_seconds(v))

\* IsoDateTime.serialize
IsoDateTime_serialize(v) == Str(isoformat(v))

\* IsoDateTime.deserialize
IsoDateTime_deserialize(w) == fromisoformat(w.s)

\* ------------------------------------------------ compressed text codec

\* The code points of the characters of the texts compressed.
CodePoint ==
    [c \in {"a", "b", "e-acute", "euro"} |->
        CASE c = "a" -> 97 [] c = "b" -> 98 [] c = "e-acute" -> 233 [] c = "euro" -> 8364]

\* One character's UTF-8 bytes (code points below 65536).
Utf8Char(c) ==
    LET p == CodePoint[c]
    IN  IF p < 128 THEN <<p>>
        ELSE IF p < 2048 THEN <<192 + (p \div 64), 128 + (p % 64)>>
        ELSE <<224 + (p \div 4096), 128 + ((p \div 64) % 64), 128 + (p % 64)>>
 
\* s.encode("utf-8")
utf8_encode(s) == Concat([i \in 1..Len(s) |-> Utf8Char(s[i])])

CharOf(p) ==
    IF \E c \in DOMAIN CodePoint : CodePoint[c] = p
    THEN <<CHOOSE c \in DOMAIN CodePoint : CodePoint[c] = p>>
    ELSE <<"?">>

IsCont(b) == b \in 128..191

RECURSIVE utf8_decode(_)
\* b.decode("utf-8") as text (a Str), or the UnicodeDecodeError.
utf8_decode(b) ==
    IF b = <<>> THEN Str(<<>>)
    ELSE IF b[1] < 128 THEN Then(CharOf(b[1]), utf8_decode(Tail(b)))
    ELSE IF b[1] \in 194..223 /\ Len(b) >= 2 /\ IsCont(b[2])
    THEN Then(CharOf((b[1] - 192) * 64 + (b[2] - 128)), utf8_decode(SubSeq(b, 3, Len(b))))
    ELSE IF b[1] \in 224..239 /\ Len(b) >= 3 /\ IsCont(b[2]) /\ IsCont(b[3])
    THEN Then(CharOf((b[1] - 224) * 4096 + (b[2] - 128) * 64 + (b[3] - 128)),
              utf8_decode(SubSeq(b, 4, Len(b))))
    ELSE Error("UnicodeDecodeError")

RECURSIVE Adler(_, _, _)
\* Adler-32 of bytes from the running sums a and b, as <<a, b>>.
Adler(bytes, a, b) ==
    IF bytes = <<>> THEN <<a, b>>
    ELSE Adler(Tail(bytes), (a + bytes[1]) % 65521, (b + ((a + bytes[1]) % 65521)) % 65521)

\* The four bytes zlib ends a stream with.
AdlerBytes(bytes) ==
    LET s == Adler(bytes, 1, 0)
    IN  <<s[2] \div 256, s[2] % 256, s[1] \div 256, s[1] % 256>>

\* zlib.compress as a zlib stream (RFC 1950) holding the data in one stored
\* deflate block (RFC 1951 3.2.4): the header 78 01, the final-block byte,
\* LEN and its complement, the data, and the Adler-32 of the data.  The
\* library's choice of block coding is not modelled.
zlib_compress(data) ==
    <<120, 1, 1, Len(data) % 256, Len(data) \div 256,
      255 - (Len(data) % 256), 255 - (Len(data) \div 256)>>
      \o data \o AdlerBytes(data)

\* zlib.decompress of such a stream: header, lengths and checksum are
\* checked; anything else is zlib.error.
zlib_decompress(z) ==
    IF /\ Len(z) >= 11
       /\ z[1] = 120 /\ (z[1] * 256 + z[2]) % 31 = 0 /\ z[3] = 1
       /\ z[4] + z[6] = 255 /\ z[5] + z[7] = 255
       /\ Len(z) = 11 + z[4] + 256 * z[5]
       /\ SubSeq(z, Len(z) - 3, Len(z)) = AdlerBytes(SubSeq(z, 8, Len(z) - 4))
    THEN [t |-> "bytes", b |-> SubSeq(z, 8, Len(z) - 4)]
    ELSE Error("zlib.error")

Base64 ==
    <<"A", "B", "C", "D", "E", "F", "G", "H", "I", "J", "K", "L", "M", "N", "O", "P",
      "Q", "R", "S", "T", "U", "V", "W", "X", "Y", "Z", "a", "b", "c", "d", "e", "f",
      "g", "h", "i", "j", "k", "l", "m", "n", "o", "p", "q", "r", "s", "t", "u", "v",
      "w", "x", "y", "z", "0", "1", "2", "3", "4", "5", "6", "7", "8", "9", "+", "/">>

RECURSIVE b64encode(_)
\* base64.b64encode, as the ASCII text of its result: three bytes to four
\* characters, the last group padded with "=".
b64encode(b) ==
    IF b = <<>> THEN <<>>
    ELSE LET b1 == b[1]
             b2 == IF Len(b) >= 2 THEN b[2] ELSE 0
             b3 == IF Len(b) >= 3 THEN b[3] ELSE 0
         IN  <<Base64[(b1 \div 4) + 1],
               Base64[((b1 % 4) * 16 + (b2 \div 16)) + 1],
               IF Len(b) >= 2 THEN Base64[((b2 % 16) * 4 + (b3 \div 64)) + 1] ELSE "=",
               IF Len(b) >= 3 THEN Base64[(b3 % 64) + 1] ELSE "=">>
               \o (IF Len(b) > 3 THEN b64encode(SubSeq(b, 4, Len(b))) ELSE <<>>)

B64Val(c) == (CHOOSE d \in 1..64 : Base64[d] = c) - 1

IsB64(c) == \E d \in 1..64 : Base64[d] = c

RECURSIVE b64groups(_)
b64groups(s) ==
    IF s = <<>> THEN <<>>
    ELSE LET v1 == B64Val(s[1])
             v2 == B64Val(s[2])
             v3 == IF s[3] = "=" THEN 0 ELSE B64Val(s[3])
             v4 == IF s[4] = "=" THEN 0 ELSE B64Val(s[4])
         IN  <<v1 * 4 + (v2 \div 16)>>
               \o (IF s[3] = "=" THEN <<>> ELSE <<(v2 % 16) * 16 + (v3 \div 4)>>)
               \o (IF s[4] = "=" THEN <<>> ELSE <<(v3 % 4) * 64 + v4>>)
               \o b64groups(SubSeq(s, 5, Len(s)))

\* base64.b64decode of a padded text: groups of four characters of the
\* alphabet, "=" only at the end; anything else is binascii.Error.
b64decode(s) ==
    IF /\ Len(s) % 4 = 0
       /\ \A i \in 1..Len(s) :
             \/ IsB64(s[i])
             \/ /\ s[i] = "="
                /\ i >= Len(s) - 1
                /\ (i = Len(s) - 1 => s[Len(s)] = "=")
    THEN [t |-> "bytes", b |-> b64groups(s)]
    ELSE Error("binascii.Error")

\* CompressedAttribute.serialize
CompressedAttribute_serialize(v) ==
    Str(b64encode(zlib_compress(utf8_encode(v.s))))

\* CompressedAttribute.deserialize
CompressedAttribute_deserialize(w) ==
    LET raw == b64decode(w.s)
        z == IF IsError(raw) THEN raw ELSE zlib_decompress(raw.b)
    IN  IF IsError(z) THEN z ELSE utf8_decode(z.b)

\* ------------------------------------------ Copy-Discriminator serialize

\* The python name of a class's discriminator attribute (_discriminator).
DiscriminatorName(c) ==
    IF \E n \in DOMAIN ClassDict(c) : ClassDict(c)[n].kind = "Discriminator"
    THEN Str(CHOOSE n \in DOMAIN ClassDict(c) : ClassDict(c)[n].kind = "Discriminator")
    ELSE None

\* The classes' own names (__name__).
ClassNameChars ==
    [Base |-> <<"B", "a", "s", "e">>,
     BarModel |-> <<"B", "a", "r", "M", "o", "d", "e", "l">>,
     UserInvite |-> <<"U", "s", "e", "r", "I", "n", "v", "i", "t", "e">>,
     Order |-> <<"O", "r", "d", "e", "r">>,
     Publisher |-> <<"P", "u", "b", "l", "i", "s", "h", "e", "r">>]

\* CopiedDiscriminatorAttribute.serialize writing the class's own name
\* instead of the tag it is registered under.
CopiedDiscriminatorAttribute_serialize_name(v) ==
    Str(ClassNameChars[v.name])

\* CopiedDiscriminatorAttribute.serialize(value), value the class read from
\* the source: getattr(value, value._discriminator, None) is the class's
\* discriminator descriptor (a primitive attribute, read through the class,
\* is the descriptor itself), whose _class_map gives the tag (KeyError for a
\* class never registered); without a descriptor the result is None.
CopiedDiscriminatorAttribute_serialize(v) ==
    LET dn == DiscriminatorName(v.name)
        disc == IF dn = None THEN Error("TypeError")
                ELSE IF dn.s \in DOMAIN ClassDict(v.name)
                     THEN ClassDict(v.name)[dn.s]
                     ELSE None
    IN  IF IsError(disc) THEN disc
        ELSE IF disc # None
        THEN IF v.name \in DOMAIN ClassMap THEN Str(ClassMap[v.name]) ELSE Error("KeyError")
        ELSE None

\* ------------------------------------------------------- the record

\* PynamoDB's side of a record: construction, attribute storage, serialize
\* and deserialize, as the descriptors above meet it.

Absent == [t |-> "absent"]
Entry(T, v) == [t |-> "entry", T |-> T, v |-> v]
EntrySS(e) == [t |-> "entry", T |-> "SS", ss |-> e]
Wire(m) == [t |-> "wire", m |-> m]

Classes == {"Base", "BarModel", "UserInvite", "Order", "Publisher"}

\* get_attributes(): the class's attributes in the order of their names.
AttrOrder(c) ==
    CASE c = "Base" -> <<"cls", "gsi1_pk">>
      [] c = "BarModel" -> <<"bar", "cls", "compound", "copy", "gsi1_pk", "pk">>
      [] c = "UserInvite" -> <<"bar", "cls", "escaped", "joined", "pk">>
      [] c = "Order" -> <<"cls", "gsi2_pk", "items", "size">>
      [] c = "Publisher" -> <<"cls", "gsi1_pk", "gsi1_sk", "name", "updated_at">>

\* attr_name: the key in the wire record; the discriminator's is "__type".
AttrName(n) == IF n = "cls" THEN "__type" ELSE n

WireNames(c) == {AttrName(n) : n \in DOMAIN ClassDict(c)}

\* The clock's instant: seconds after 2026-01-01T00:00:00+00:00.
Instant(n) == DateTime(2026, 1, 1, 0, 0, n, 0, IntV(0))

\* Attribute.__set__, which no derived attribute overrides: the value is
\* stored under the name, whatever the attribute.
Attribute_set(vals, n, v) == [vals EXCEPT ![n] = v]

\* Model.__init__(**kwargs) at clock time clock: nothing stored, then the
\* discriminator of a registered class, then the defaults (the fresh-write
\* date-time's default is the current instant), then the keyword arguments.
Model_init(c, kwargs, clock) ==
    LET d == ClassDict(c)
        v0 == [n \in DOMAIN d |-> None]
        v1 == IF c \in DOMAIN ClassMap THEN Attribute_set(v0, "cls", Type(c)) ELSE v0
        v2 == [n \in DOMAIN d |->
                  IF d[n].kind = "UpdatedIsoDateTime" THEN Instant(clock) ELSE v1[n]]
    IN  [n \in DOMAIN d |-> IF n \in DOMAIN kwargs THEN kwargs[n] ELSE v2[n]]

\* attr.serialize(value) for a value that is not None, as a wire entry
\* {attr_type: ...}; None when the attribute serializes the value to None.
SerializeAttr(self, v) ==
    CASE self.kind \in {"Unicode", "Template", "Joined", "EscapedJoined", "CopiedUnicode"} ->
            Entry("S", v.s)
      [] self.kind = "SetSize" -> Entry("N", IntToText(v.n))
      [] self.kind = "UnicodeSet" -> IF v.e = {} THEN None ELSE EntrySS(v.e)
      [] self.kind = "Discriminator" ->
            IF v.name \in DOMAIN ClassMap THEN Entry("S", ClassMap[v.name]) ELSE Error("KeyError")
      [] self.kind = "CopiedDiscriminator" ->
            LET w == CopiedDiscriminatorAttribute_serialize(v)
            IN  IF IsError(w) \/ w = None THEN w ELSE Entry("S", w.s)
      [] self.kind = "UpdatedIsoDateTime" -> Entry("S", IsoDateTime_serialize(v).s)

\* What serialize writes for an attribute whose serialized value is w: an
\* exception passes through, and with null_check a None is refused.
NullCheck(w, null_check) ==
    IF IsError(w) THEN w
    ELSE IF w = None THEN (IF null_check THEN Error("ValueError") ELSE Absent)
    ELSE w

\* One attribute's step of serialize: the value is read once through the
\* descriptor, serialized unless None, and checked.
SerializeStep(o, n, null_check) ==
    CHOOSE r \in {NullCheck(w, null_check) :
                    w \in {IF IsError(v) \/ v = None THEN v
                           ELSE SerializeAttr(ClassDict(o.cls)[n], v) :
                           v \in {getattr(o, n)}}} : TRUE

\* Model.serialize(null_check): every attribute's step in order; the first
\* exception ends it, else the wire record keyed by attr_name.
Model_serialize(o, null_check) ==
    LET ord == AttrOrder(o.cls)
    IN  CHOOSE r \in {IF HasError(steps) THEN FirstError(steps)
                      ELSE Wire([k \in WireNames(o.cls) |->
                                    steps[CHOOSE i \in 1..Len(ord) : AttrName(ord[i]) = k]]) :
                      steps \in {[i \in 1..Len(ord) |-> SerializeStep(o, ord[i], null_check)]}} :
           TRUE

\* attr.deserialize of a wire entry's value.
DeserializeAttr(self, e) ==
    CASE self.kind \in {"Unicode", "Template", "Joined", "EscapedJoined", "CopiedUnicode",
                        "CopiedDiscriminator"} -> Str(e.v)
      [] self.kind = "SetSize" -> IntV(ParseInt(e.v))
      [] self.kind = "UnicodeSet" -> SetV(e.ss)
      [] self.kind = "Discriminator" ->
            Type(CHOOSE c \in DOMAIN ClassMap : ClassMap[c] = e.v)
      [] self.kind = "UpdatedIsoDateTime" -> IsoDateTime_deserialize(Str(e.v))

\* Model.deserialize(wire data) at clock time clock: the record is emptied,
\* discriminator and defaults are set as at construction, then every
\* attribute with an entry in the wire data, derived ones included, is set to
\* the deserialized entry.
Model_deserialize(c, w, clock) ==
    LET d == ClassDict(c)
        v2 == Model_init(c, <<>>, clock)
    IN  [n \in DOMAIN d |->
            IF w[AttrName(n)] # Absent THEN DeserializeAttr(d[n], w[AttrName(n)]) ELSE v2[n]]

\* -------------------------------------------------------------- Spec

\* A specification leaves the variables of the others idle.
NoCodec ==
    codec = "" /\ value = Idle /\ wire = Idle /\ decoded = Idle

NoRecord ==
    cls = "" /\ attribute_values = Idle /\ now = 0 /\ last = Idle

NoDescriptor ==
    attr = Idle /\ obj = Idle /\ other = Idle /\ out = Idle


\* The last tick of the clock.
MaxClock == 2

\* A date-time a caller supplies for the fresh-write field; the clock never
\* shows it.
Stale == DateTime(2020, 1, 1, 0, 0, 0, 0, IntV(0))

RecTexts == {Str(<<"x">>), Str(<<"a", "#">>)}

ItemSets == {SetV(e) : e \in SUBSET {<<"x">>, <<"y">>}}

\* The primitive attributes a caller sets, and the values tried for each.
PrimValues(self) ==
    CASE self.kind = "Unicode" -> RecTexts \cup {None}
      [] self.kind = "UnicodeSet" -> ItemSets \cup {None}
      [] self.kind = "UpdatedIsoDateTime" -> {Stale}
      [] OTHER -> {}

\* What a caller tries to assign to a derived attribute.
AssignedValues(self) ==
    CASE self.kind = "SetSize" -> {IntV(9)}
      [] self.kind \in DerivedKinds -> {Str(<<"V">>)}
      [] OTHER -> {}

\* The entry wire data may carry for a derived attribute.
DerivedEntry(self) ==
    IF self.kind = "SetSize" THEN Entry("N", <<"7">>) ELSE Entry("S", <<"W">>)

\* The entries wire data may carry for a primitive attribute; the
\* discriminator's is the class's own tag.
PrimEntries(c, self) ==
    CASE self.kind = "Unicode" -> {Entry("S", v.s) : v \in RecTexts}
      [] self.kind = "UnicodeSet" -> {EntrySS(v.e) : v \in ItemSets \ {SetV({})}}
      [] self.kind = "UpdatedIsoDateTime" -> {Entry("S", isoformat(Stale))}
      [] self.kind = "Discriminator" ->
            IF c \in DOMAIN ClassMap THEN {Entry("S", ClassMap[c])} ELSE {}
      [] OTHER -> {}

AllEntries(c) ==
    UNION {PrimEntries(c, ClassDict(c)[n]) : n \in DOMAIN ClassDict(c)} \cup {Absent}

\* The wire data tried for a class: any entry or none for each primitive
\* attribute, and either no entry for the derived attributes or one for each.
WireInputs(c) ==
    LET d == ClassDict(c)
    IN  {[k \in WireNames(c) |->
            LET n == CHOOSE m \in DOMAIN d : AttrName(m) = k
            IN  IF IsDerived(c, n) THEN (IF derived THEN DerivedEntry(d[n]) ELSE Absent)
                ELSE f[n]] :
         f \in {g \in [{n \in DOMAIN d : ~IsDerived(c, n)} -> AllEntries(c)] :
                  \A n \in DOMAIN g : g[n] \in PrimEntries(c, d[n]) \cup {Absent}},
         derived \in BOOLEAN}

\* The keyword arguments tried at construction: a value for any of the
\* primitive attributes.
Kwargs(c) ==
    LET d == ClassDict(c)
        prim == {n \in DOMAIN d : PrimValues(d[n]) # {}}
        all == UNION {PrimValues(d[n]) : n \in prim}
    IN  UNION {{g \in [S -> all] : \A n \in S : g[n] \in PrimValues(d[n]) \ {None}} :
               S \in SUBSET prim}

Did(op, n, r) == [op |-> op, name |-> n, result |-> r]

ThisObj == Obj(cls, attribute_values)

\* record = Cls(**kwargs), constructed at some time of the clock
Init ==
    /\ now \in 0..MaxClock
    /\ \E c \in Classes : \E kw \in Kwargs(c) :
          /\ cls = c
          /\ attribute_values = Model_init(c, kw, now)
          /\ (now > 0 => \E n \in DOMAIN ClassDict(c) : ClassDict(c)[n].kind = "UpdatedIsoDateTime")
    /\ last = Did("new", "", None)
    /\ NoDescriptor /\ NoCodec

\* record.name = v, name a primitive or a derived attribute
SetAttr ==
    /\ \E n \in DOMAIN ClassDict(cls) :
          \E v \in PrimValues(ClassDict(cls)[n]) \cup AssignedValues(ClassDict(cls)[n]) :
             /\ attribute_values' = Attribute_set(attribute_values, n, v)
             /\ last' = Did("set", n, None)
    /\ UNCHANGED <<attr, obj, other, out, codec, value, wire, decoded, cls, now>>

\* record.name
Read ==
    /\ \E n \in DOMAIN ClassDict(cls) :
          last' = Did("get", n, getattr(ThisObj, n))
    /\ UNCHANGED <<attr, obj, other, out, codec, value, wire, decoded, cls, attribute_values, now>>

\* Cls.name, no record bound
ClassRead ==
    /\ \E n \in DOMAIN ClassDict(cls) :
          last' = Did("classget", n, Get(ClassDict(cls)[n], n, None))
    /\ UNCHANGED <<attr, obj, other, out, codec, value, wire, decoded, cls, attribute_values, now>>

\* record.serialize(null_check)
SerializeRecord ==
    /\ \E null_check \in BOOLEAN :
          last' = Did("serialize", IF null_check THEN "null_check" ELSE "",
                      Model_serialize(ThisObj, null_check))
    /\ UNCHANGED <<attr, obj, other, out, codec, value, wire, decoded, cls, attribute_values, now>>

\* record.deserialize(wire data)
DeserializeRecord ==
    /\ \E w \in WireInputs(cls) :
          attribute_values' = Model_deserialize(cls, w, now)
    /\ last' = Did("deserialize", "", None)
    /\ UNCHANGED <<attr, obj, other, out, codec, value, wire, decoded, cls, now>>

\* time passes; only a class with a fresh-write field looks at the clock
Tick ==
    /\ now < MaxClock
    /\ \E n \in DOMAIN ClassDict(cls) : ClassDict(cls)[n].kind = "UpdatedIsoDateTime"
    /\ now' = now + 1
    /\ last' = Did("tick", "", None)
    /\ UNCHANGED <<attr, obj, other, out, codec, value, wire, decoded, cls, attribute_values>>

Next ==
    \/ SetAttr
    \/ Read
    \/ ClassRead
    \/ SerializeRecord
    \/ DeserializeRecord
    \/ Tick

Spec == Init /\ [][Next]_vars

\* What a text field shows inside a derived text: its text, "None" for None.
Shown(v) == IF v = None THEN <<"N", "o", "n", "e">> ELSE v.s

\* A field value with every "#" percent-encoded (the record's texts hold
\* letters and "#" only).
Escaped(s) == Concat([i \in 1..Len(s) |-> IF s[i] = "#" THEN <<"%", "2", "3">> ELSE <<s[i]>>])

\* The value each derived attribute of the model classes stands for, written
\* out from the stored values vals of the primitive attributes.
Expected(c, n, vals) ==
    CASE c = "BarModel" /\ n = "compound" ->
            Str(<<"B", "A", "R", "#">> \o Shown(vals.pk) \o <<"#">> \o Shown(vals.bar))
      [] c = "BarModel" /\ n = "copy" -> vals.bar
      [] c = "UserInvite" /\ n = "joined" ->
            Str(Shown(vals.pk) \o <<"#">> \o Shown(vals.bar))
      [] c = "UserInvite" /\ n = "escaped" ->
            Str(Escaped(Shown(vals.pk)) \o <<"#">> \o Escaped(Shown(vals.bar)))
      [] c = "Order" /\ n = "size" -> IntV(Cardinality(vals.items.e))
      [] c = "Order" /\ n = "gsi2_pk" ->
            Str(<<"B", "Y", "S", "I", "Z", "E", "#">> \o IntToText(Cardinality(vals.items.e)))
      [] c = "Publisher" /\ n = "gsi1_sk" ->
            Str(<<"P", "U", "B", "L", "I", "S", "H", "E", "R", "#">> \o Shown(vals.name))
      [] n = "gsi1_pk" -> vals.cls

\* The wire entry a value is written as; nothing is written for None or for
\* an empty set.
Encoded(v) ==
    CASE v = None -> Absent
      [] v.t = "str" -> Entry("S", v.s)
      [] v.t = "int" -> Entry("N", IntToText(v.n))
      [] v.t = "type" -> Entry("S", ClassMap[v.name])
      [] v.t = "set" -> IF v.e = {} THEN Absent ELSE EntrySS(v.e)
      [] v.t = "datetime" -> Entry("S", isoformat(v))

\* C1: whatever was assigned or deserialized before, a read of a derived
\* field (Template, Joined, Escaped-Joined, Copy, Size) returns the value
\* computed from the primitive fields as they are stored now: never the
\* entry wire data carried for the derived field, never a value assigned to
\* it, never the result of an earlier read.  (The size of an Order whose
\* items were never set has no value; the claim is about the others.)
C1_DerivedRecomputed ==
    (/\ last.op = "get"
     /\ IsDerived(cls, last.name)
     /\ (cls = "Order" => attribute_values.items # None))
        => last.result = Expected(cls, last.name, attribute_values)

\* A read of the template field of a record deserialized from wire data that
\* carried an entry for it.
C1_Witness ==
    /\ cls = "BarModel"
    /\ last.op = "get" /\ last.name = "compound"
    /\ attribute_values.compound = Str(<<"W">>)
    /\ attribute_values.pk = Str(<<"x">>)
    /\ attribute_values.bar = Str(<<"a", "#">>)
    /\ last.result = Str(<<"B", "A", "R", "#", "x", "#", "a", "#">>)

\* C2: a serialize that succeeds writes, under every derived field's own
\* name, the entry for the value a read of the field returns at that moment,
\* next to the entries of the primitive fields.
C2_SerializeWritesDerived ==
    (last.op = "serialize" /\ last.result.t = "wire")
        => \A n \in DOMAIN ClassDict(cls) :
              last.result.m[AttrName(n)]
                 = Encoded(IF IsDerived(cls, n) THEN Expected(cls, n, attribute_values)
                           ELSE attribute_values[n])

\* BarModel(pk="x", bar="a#").serialize() holds compound = "BAR#x#a#".
C2_Witness ==
    /\ cls = "BarModel"
    /\ last.op = "serialize" /\ last.result.t = "wire"
    /\ attribute_values.pk = Str(<<"x">>)
    /\ last.result.m.pk = Entry("S", <<"x">>)
    /\ last.result.m.compound = Entry("S", <<"B", "A", "R", "#", "x", "#", "a", "#">>)

\* C4: the Copy-Discriminator field of a record of a class registered under
\* tag T is written as exactly T; on a record of the untagged Base it reads
\* None and a serialize that succeeds writes no entry for it.
C4_CopiedDiscriminator ==
    /\ (/\ last.op = "serialize" /\ last.result.t = "wire"
        /\ "gsi1_pk" \in DOMAIN ClassDict(cls))
          => last.result.m.gsi1_pk
                = (IF cls \in DOMAIN ClassMap THEN Entry("S", ClassMap[cls]) ELSE Absent)
    /\ (cls = "Base" /\ last.op = "get" /\ last.name = "gsi1_pk")
          => last.result = None

\* A BarModel record, registered as "Bar", serialized.
C4_Witness ==
    /\ cls = "BarModel"
    /\ last.op = "serialize" /\ last.result.t = "wire"
    /\ last.result.m.gsi1_pk = Entry("S", <<"B", "a", "r">>)

\* C5: an assignment to a derived field is rejected with
\* ReadOnlyViolationError.
C5_DerivedReadOnly ==
    (last.op = "set" /\ IsDerived(cls, last.name))
        => last.result = Error("ReadOnlyViolationError")

\* C6: what a serialize writes for the fresh-write date-time is the instant
\* of the write, whatever the caller supplied and whenever the record was
\* constructed.
C6_FreshWrite ==
    (cls = "Publisher" /\ last.op = "serialize" /\ last.result.t = "wire")
        => last.result.m.updated_at = Entry("S", isoformat(Instant(now)))

\* C7: a derived attribute read through the class is the descriptor itself,
\* and read through a record it is never the descriptor.
C7_DescriptorOnClass ==
    /\ (last.op = "classget" /\ IsDerived(cls, last.name))
          => last.result = ClassDict(cls)[last.name]
    /\ (last.op = "get" /\ IsDerived(cls, last.name))
          => last.result.t # "attr"

\* ---------------------------------------------------------- SpecJoin

\* The longest field value tried in SpecJoin.
MaxLen == 2

ValueAlphabet == {"a", "#", "%"}

\* The values a source field may hold: short texts, and None.
JoinValues ==
    {Str(s) : s \in TextsUpTo(ValueAlphabet, MaxLen) \cup {<<"a", "@", "b">>, <<"a", "/", "b">>}}
        \cup {None}

AttrsArgs ==
    {Tuple(<<"pk", "bar">>), Tuple(<<"bar", "pk">>), Str(<<"p", "k", ",", " ", "b", "a", "r">>)}

EscapedArgs ==
    {None, Tuple(<<>>), Str(<<>>), Tuple(<<"pk">>), Tuple(<<"bar">>),
     Tuple(<<"bar", "pk">>), Str(<<"p", "k">>), Str(<<"b", "a", "r", ",", "p", "k">>)}

Seps == {DefaultSep, <<"|">>}

InitJoin ==
    /\ \E as \in AttrsArgs, sp \in Seps, es \in EscapedArgs :
          attr = EscapedJoinedUnicodeAttribute_init(as, sp, es)
    /\ obj \in [{"pk", "bar"} -> JoinValues]
    /\ other = Idle
    /\ out = Idle
    /\ NoCodec /\ NoRecord

\* obj.field, field an Escaped-Joined descriptor
ReadEscapedJoined ==
    /\ out = Idle
    /\ out' = [kind |-> "escaped",
               result |-> EscapedJoinedUnicodeAttribute_get(attr, Obj("Plain", obj))]
    /\ UNCHANGED <<attr, obj, other, codec, value, wire, decoded, cls, attribute_values, now, last>>

\* obj.field, field a plain Joined descriptor with the same attrs and sep
ReadJoined ==
    /\ out = Idle
    /\ out' = [kind |-> "joined",
               result |-> JoinedUnicodeAttribute_get(attr, Obj("Plain", obj))]
    /\ UNCHANGED <<attr, obj, other, codec, value, wire, decoded, cls, attribute_values, now, last>>

NextJoin == ReadEscapedJoined \/ ReadJoined

SpecJoin == InitJoin /\ [][NextJoin]_vars

\* Whether the claim has field x percent-encoded under escape set esc.
MustEscape(esc, x) ==
    esc = None \/ \E i \in 1..Len(esc.items) : esc.items[i] = x

\* The text a field contributes: its stringified value, with every character
\* outside letters, digits and "_.-~/" replaced by its %XX form when escaped.
Contribution(d, o, x) ==
    LET s == str(o[x])
        enc == [i \in 1..Len(s) |->
                   IF s[i] \in {"#", "%", "@", "|"}
                   THEN <<"%", HexDigits[(Ord[s[i]] \div 16) + 1], HexDigits[(Ord[s[i]] % 16) + 1]>>
                   ELSE <<s[i]>>]
    IN  IF MustEscape(d.escaped, x) THEN Concat(enc) ELSE s

\* C3: an Escaped-Joined read is the source fields' stringified values in
\* declared order with the separator between them, a field percent-encoded
\* exactly when the escape set is unset/empty or names the field.
C3_EscapedJoinedValue ==
    (out # Idle /\ out.kind = "escaped") =>
        /\ Len(attr.attrs) = 2
        /\ out.result = Str(Contribution(attr, obj, attr.attrs[1]) \o attr.sep
                                \o Contribution(attr, obj, attr.attrs[2]))

\* A read where one field is escaped and the other, holding characters
\* that escaping would change, is left as it is.
C3_Witness ==
    /\ out # Idle /\ out.kind = "escaped"
    /\ attr.escaped = Tuple(<<"pk">>)
    /\ attr.attrs = <<"bar", "pk">>
    /\ attr.sep = <<"|">>
    /\ obj["pk"] = Str(<<"a", "@", "b">>)
    /\ obj["bar"] = Str(<<"#", "%">>)
    /\ out.result = Str(<<"#", "%", "|", "a", "%", "4", "0", "b">>)

\* ----------------------------------------------------------- SpecInj

\* The longest field value tried in SpecInj, besides the two escapes below.
MaxInjLen == 1

\* Text values only: everything up to MaxInjLen, and the texts that are
\* themselves the escapes of "#" and "%".
InjValues ==
    {Str(s) : s \in TextsUpTo(ValueAlphabet, MaxInjLen)
                      \cup {<<"%", "2", "3">>, <<"%", "2", "5">>}}

InitInj ==
    /\ attr = EscapedJoinedUnicodeAttribute_init(Tuple(<<"pk", "bar">>), DefaultSep, None)
    /\ obj \in [{"pk", "bar"} -> InjValues]
    /\ other \in [{"pk", "bar"} -> InjValues]
    /\ out = Idle
    /\ NoCodec /\ NoRecord

\* the Escaped-Joined field read on both records
ReadBothEscaped ==
    /\ out = Idle
    /\ out' = [kind |-> "escaped",
               r1 |-> EscapedJoinedUnicodeAttribute_get(attr, Obj("Plain", obj)),
               r2 |-> EscapedJoinedUnicodeAttribute_get(attr, Obj("Plain", other))]
    /\ UNCHANGED <<attr, obj, other, codec, value, wire, decoded, cls, attribute_values, now, last>>

\* a plain Joined field over the same attributes read on both records
ReadBothJoined ==
    /\ out = Idle
    /\ out' = [kind |-> "joined",
               r1 |-> JoinedUnicodeAttribute_get(attr, Obj("Plain", obj)),
               r2 |-> JoinedUnicodeAttribute_get(attr, Obj("Plain", other))]
    /\ UNCHANGED <<attr, obj, other, codec, value, wire, decoded, cls, attribute_values, now, last>>

NextInj == ReadBothEscaped \/ ReadBothJoined

SpecInj == InitInj /\ [][NextInj]_vars

\* C10: with the default separator and every field escaped, two records
\* whose (pk, bar) values differ never read the same joined value.
C10_EscapedJoinInjective ==
    (out # Idle /\ out.kind = "escaped" /\ obj # other) => out.r1 # out.r2

\* Two different records whose plain joins coincide ("#" in a value plays
\* the separator) and whose escaped joins were read.
C10_Witness ==
    /\ out # Idle /\ out.kind = "escaped"
    /\ obj = [pk |-> Str(<<"#">>), bar |-> Str(<<>>)]
    /\ other = [pk |-> Str(<<>>), bar |-> Str(<<"#">>)]
    /\ JoinedUnicodeAttribute_get(attr, Obj("Plain", obj))
         = JoinedUnicodeAttribute_get(attr, Obj("Plain", other))
    /\ out.r1 = Str(<<"%", "2", "3", "#">>)
    /\ out.r2 = Str(<<"#", "%", "2", "3">>)

\* ------------------------------------------------------ SpecTemplate

\* The templates tried, each with its text and, for the claims, the same
\* template taken apart by hand: literal text and placeholders in order.
Lit(s) == [lit |-> s]
Ph(n) == [ph |-> n]

Templates ==
    {[text |-> <<"B", "A", "R", "#", "$", "p", "k", "#", "$", "b", "a", "r">>,
      pieces |-> <<Lit(<<"B", "A", "R", "#">>), Ph("pk"), Lit(<<"#">>), Ph("bar")>>],
     [text |-> <<"$", "p", "k">>,
      pieces |-> <<Ph("pk")>>],
     [text |-> <<"$", "{", "p", "k", "}", "x", "$", "b", "a", "r">>,
      pieces |-> <<Ph("pk"), Lit(<<"x">>), Ph("bar")>>],
     [text |-> <<"$", "$", "p", "k">>,
      pieces |-> <<Lit(<<"$", "p", "k">>)>>],
     [text |-> <<"x">>,
      pieces |-> <<Lit(<<"x">>)>>],
     [text |-> <<"$", "b", "a", "r", "$", "p", "k">>,
      pieces |-> <<Ph("bar"), Ph("pk")>>],
     [text |-> <<"$", "z", "z", "#", "$", "p", "k">>,
      pieces |-> <<Ph("zz"), Lit(<<"#">>), Ph("pk")>>],
     [text |-> <<"$", "p", "k", "_", "#">>,
      pieces |-> <<Ph("pk_"), Lit(<<"#">>)>>]}

\* The declared source lists tried: every list over the record's fields.
TemplateAttrs == {<<"pk", "bar">>, <<"bar", "pk">>, <<"pk">>, <<"bar">>, <<>>}

\* Field values: texts (one of them spelling a placeholder) and None.
TemplateValues ==
    {None, Str(<<>>), Str(<<"a">>), Str(<<"#">>), Str(<<"$", "p", "k">>)}

InitTemplate ==
    /\ \E tp \in Templates, as \in TemplateAttrs :
          attr = CompoundTemplateAttribute_init(tp.text, as)
    /\ obj \in [{"pk", "bar"} -> TemplateValues]
    /\ other = Idle
    /\ out = Idle
    /\ NoCodec /\ NoRecord

\* obj.field, field the Template descriptor: its first use
ReadTemplate ==
    /\ out = Idle
    /\ out' = [kind |-> "template",
               result |-> CompoundTemplateAttribute_get(attr, Obj("Plain", obj))]
    /\ UNCHANGED <<attr, obj, other, codec, value, wire, decoded, cls, attribute_values, now, last>>

\* the record's fields change; what was read is forgotten
AssignField ==
    /\ \E n \in {"pk", "bar"}, v \in TemplateValues :
          /\ obj[n] # v
          /\ obj' = [obj EXCEPT ![n] = v]
    /\ out' = Idle
    /\ UNCHANGED <<attr, other, codec, value, wire, decoded, cls, attribute_values, now, last>>

NextTemplate == ReadTemplate \/ AssignField

SpecTemplate == InitTemplate /\ [][NextTemplate]_vars

PiecesOf(text) == (CHOOSE tp \in Templates : tp.text = text).pieces

Declared(as, n) == \E i \in 1..Len(as) : as[i] = n

IsPh(p) == "ph" \in DOMAIN p

\* C8: a read through a Template whose text has a placeholder missing from
\* the declared source list raises (Python's KeyError is the TemplateError);
\* otherwise it is the template with every placeholder replaced by the
\* stringified current value of the field of that name.
C8_TemplateStrict ==
    (out # Idle /\ out.kind = "template") =>
        LET ps == PiecesOf(attr.template)
        IN  IF \E i \in 1..Len(ps) : IsPh(ps[i]) /\ ~Declared(attr.attrs, ps[i].ph)
            THEN out.result = Error("KeyError")
            ELSE out.result =
                   Str(Concat([i \in 1..Len(ps) |->
                                  IF IsPh(ps[i]) THEN str(obj[ps[i].ph]) ELSE ps[i].lit]))

\* The read of "BAR#$pk#$bar" with only pk declared has raised.
C8_Witness ==
    /\ out # Idle /\ out.kind = "template"
    /\ attr.template = <<"B", "A", "R", "#", "$", "p", "k", "#", "$", "b", "a", "r">>
    /\ attr.attrs = <<"pk">>
    /\ obj["pk"] = Str(<<"a">>)
    /\ out.result = Error("KeyError")

\* --------------------------------------------------------- SpecCodec

\* The ULIDs tried: 16 bytes, all equal but one.
ULIDBytes == {0, 1, 170, 255}

ULIDs ==
    {ULID([i \in 1..16 |-> IF i = k THEN b ELSE c]) : k \in 1..16, b \in ULIDBytes, c \in ULIDBytes}

\* The instants tried: the ends of every field's range, naive and with
\* offsets of whole minutes, of odd seconds, east and west.
DateTimes ==
    {DateTime(y, mo, d, h, h + 36, 59 - h, us, tz) :
        y \in {1, 2026, 9999}, mo \in {1, 12}, d \in {1, 31}, h \in {0, 23},
        us \in {0, 5, 120000, 999999},
        tz \in {None, IntV(0), IntV(19800), IntV(-18000), IntV(61), IntV(-86340)}}

\* The longest text compressed.
MaxTextLen == 2

Texts == {Str(s) : s \in TextsUpTo(DOMAIN CodePoint, MaxTextLen)}

InitCodec ==
    /\ \/ codec = "ULID" /\ value \in ULIDs
       \/ codec = "IsoDateTime" /\ value \in DateTimes
       \/ codec = "Compressed" /\ value \in Texts
    /\ wire = Idle
    /\ decoded = Idle
    /\ NoDescriptor /\ NoRecord

\* attr.serialize(value)
serialize(c, v) ==
    CASE c = "ULID" -> ULIDAttribute_serialize(v)
      [] c = "IsoDateTime" -> IsoDateTime_serialize(v)
      [] c = "Compressed" -> CompressedAttribute_serialize(v)

\* attr.deserialize(wire)
deserialize(c, w) ==
    CASE c = "ULID" -> ULIDAttribute_deserialize(w)
      [] c = "IsoDateTime" -> IsoDateTime_deserialize(w)
      [] c = "Compressed" -> CompressedAttribute_deserialize(w)

Serialize ==
    /\ wire = Idle
    /\ wire' = serialize(codec, value)
    /\ UNCHANGED <<attr, obj, other, out, codec, value, decoded, cls, attribute_values, now, last>>

Deserialize ==
    /\ wire # Idle /\ decoded = Idle
    /\ decoded' = deserialize(codec, wire)
    /\ UNCHANGED <<attr, obj, other, out, codec, value, wire, cls, attribute_values, now, last>>

NextCodec == Serialize \/ Deserialize

SpecCodec == InitCodec /\ [][NextCodec]_vars

\* C9: for each codec, what deserialize makes of serialize's result is
\* the value serialized.
C9_CodecRoundTrip ==
    decoded # Idle => decoded = value

\* A date-time with microseconds and a negative offset of odd minutes has
\* gone through its wire text and back.
C9_Witness ==
    /\ decoded # Idle
    /\ codec = "IsoDateTime"
    /\ value = DateTime(2026, 12, 31, 23, 59, 36, 5, IntV(-86340))
    /\ wire = Str(<<"2", "0", "2", "6", "-", "1", "2", "-", "3", "1", "T", "2", "3", ":",
                    "5", "9", ":", "3", "6", ".", "0", "0", "0", "0", "0", "5", "-",
                    "2", "3", ":", "5", "9">>)

====
